---- MODULE Spec2Model ----
(***************************************************************************)
(* Model of the document segmentation pipeline of docvia-backend:          *)
(* backend/controllers/segmentation.controller.js.                         *)
(*                                                                         *)
(* State: the document_segments table of the store and, for every request  *)
(* the server handles, the position of its handler between two awaits, its *)
(* local variables and the responses it has sent.  One action is one step  *)
(* of a handler from an await to the next one (or to its return).          *)
(*                                                                         *)
(* JavaScript objects are records; a key an object does not have is a      *)
(* field the record does not have.  Strings the code takes apart are       *)
(* sequences of tokens; null-or-value results are sequences of length 0/1. *)
(***************************************************************************)
EXTENDS Integers, Sequences, FiniteSets, TLC

\* ------------------------------------------------------------------ bounds

\* Requests whose handlers may be in flight at the same time.
MaxRuns == 2
\* Pages of a stored document.
MaxPages == 2

\* The requests of a behaviour: MaxRuns requests that arrive at any time, and one
\* more, LateRun, that arrives when the handlers of all the others have returned.
RunIds == 1..MaxRuns
LateRun == MaxRuns + 1
AllRuns == RunIds \cup {LateRun}

\* ------------------------------------------------------------ input domains

\* A pdfId is a file name: a sequence of tokens; << >> is a missing or empty one.
PdfIds == {<<"d1", ".pdf">>}
MissingPdfId == << >>
\* A userId; "" is a missing or empty one.
UserIds == {"u1", "u2"}
MissingUserId == ""

\* What the storage bucket holds under pdfs/<pdfId>: bytes pdfjs cannot open,
\* or a document of pages, each a page with little text ("short"), a page with
\* much text ("long"), or a page pdfjs cannot decode ("bad").
PageSeqs == UNION {[1..n -> {"short", "long", "bad"}] : n \in 1..MaxPages}
Docs == {[parseable |-> FALSE, pages |-> << >>]}
          \cup {[parseable |-> TRUE, pages |-> p] : p \in PageSeqs}

\* A segment object of a roadmap, with the fields of the format the prompt asks
\* for and the fallback has.
Seg(i, t, d) ==
  [id |-> i, title |-> t, description |-> "description",
   keyPoints |-> <<"key point">>, difficulty |-> d,
   estimatedTime |-> "5-10 minutes", learningObjectives |-> <<"objective">>]
\* A segment object that has an id, a title and a difficulty and nothing else.
BareSeg(i, t, d) == [id |-> i, title |-> t, difficulty |-> d]

\* JSON objects the generation service may answer with (after JSON.parse).
Base == [title |-> <<"Course">>, overview |-> "generated overview",
         estimatedTotalTime |-> "45-60 minutes"]
WithSegs(segs, n) ==
  [title |-> Base.title, overview |-> Base.overview,
   estimatedTotalTime |-> Base.estimatedTotalTime,
   segments |-> segs, totalSegments |-> n]
\* The same object with one more field, isUsingFallback: true.
Flagged(p) ==
  [title |-> p.title, overview |-> p.overview,
   estimatedTotalTime |-> p.estimatedTotalTime,
   segments |-> p.segments, totalSegments |-> p.totalSegments,
   isUsingFallback |-> TRUE]
\* Five segments of the required format, in reading order.
FiveSegs ==
  << Seg(1, "A", "beginner"), Seg(2, "B", "intermediate"), Seg(3, "C", "advanced"),
     Seg(4, "D", "intermediate"), Seg(5, "E", "advanced") >>
Payloads ==
  { WithSegs(FiveSegs, 5),
    Flagged(WithSegs(<<Seg(2, "A", "beginner"), BareSeg(2, "B", "expert")>>, 4)),
    WithSegs(<< >>, 0),
    Base }

\* Tokens of the text content of a generation reply: the fence with its json
\* tag, the bare fence, a line break, other text, the JSON text of null, and the
\* JSON text of an object.
FenceJson == [t |-> "fence_json"]
Fence == [t |-> "fence"]
NL == [t |-> "newline"]
Prose == [t |-> "prose"]
Scalar == [t |-> "null"]
Obj(p) == [t |-> "object", v |-> p]

Contents ==
  {<<Obj(p)>> : p \in Payloads}
    \cup {<<FenceJson, NL, Obj(p), NL, Fence>> : p \in Payloads}
    \cup {<<Fence, NL, Obj(p), NL, Fence, NL>> : p \in Payloads}
    \cup {<<Prose, FenceJson, Obj(p), Fence>> : p \in Payloads}
    \cup {<< >>, <<Prose>>, <<Scalar>>}

\* Outcomes of groq.chat.completions.create: it throws, or it returns a message
\* whose content is null, or one whose content is a text.
GroqOutcomes ==
  {[kind |-> "throw"], [kind |-> "null content"]}
    \cup {[kind |-> "text", content |-> c] : c \in Contents}

\* ------------------------------------------------------------- JavaScript

\* !x for a string, and for a file name.
Falsy(x) == x = ""
FalsyName(f) == f = << >>
\* obj.key used as a condition: the key is there and its value is true.
Truthy(obj, key) == key \in DOMAIN obj /\ obj[key] = TRUE

\* JSON.stringify of a value, and JSON.parse of such a text.
JSONstringify(v) == [json |-> v]
JSONparse(text) == text.json

\* str.replace(/<fence>\n?/g, ''): every fence token goes, with the line break
\* that directly follows it.
RECURSIVE ReplaceFence(_, _)
ReplaceFence(s, fence) ==
  IF s = << >> THEN << >>
  ELSE IF Head(s) = fence
       THEN IF Len(s) >= 2 /\ s[2] = NL
            THEN ReplaceFence(SubSeq(s, 3, Len(s)), fence)
            ELSE ReplaceFence(Tail(s), fence)
       ELSE <<Head(s)>> \o ReplaceFence(Tail(s), fence)

\* str.trim(): leading and trailing white space goes.
RECURSIVE TrimStart(_)
TrimStart(s) == IF s # << >> /\ Head(s) = NL THEN TrimStart(Tail(s)) ELSE s
RECURSIVE TrimEnd(_)
TrimEnd(s) ==
  IF s # << >> /\ s[Len(s)] = NL THEN TrimEnd(SubSeq(s, 1, Len(s) - 1)) ELSE s
Trim(s) == TrimEnd(TrimStart(s))

\* JSON.parse of a reply text: one JSON value, white space around it allowed;
\* anything else is a SyntaxError.
ParseReply(s) ==
  LET t == Trim(s) IN
  IF Len(t) = 1 /\ t[1].t \in {"object", "null"}
  THEN [ok |-> TRUE, value |-> t[1]]
  ELSE [ok |-> FALSE]

\* ------------------------------------------------------------ the pipeline

\* ---------------------------------------------------------------- strings
\*
\* A string whose length matters is a sequence of pieces; a piece is the first
\* n characters of a named text (the marker of page i, the text of page i, the
\* truncation marker).

\* The limit of segmentWithGroq on the text it puts into the prompt.
MaxChars == 15000
\* '\n... (content truncated for token limit)'
TruncationMarker == <<[s |-> "truncation marker", page |-> 0, n |-> 40]>>
\* '\n[PAGE i]\n', ten characters for the pages of the documents here.
PageMarker(i) == [s |-> "page marker", page |-> i, n |-> 10]
\* items.map(item => item.str).join(' ') of page i: a short page has a few
\* characters; a long page, with its marker, has as many as the limit.
PageText(kind, i) ==
  [s |-> "page text", page |-> i,
   n |-> IF kind = "long" THEN MaxChars - PageMarker(i).n ELSE 5]

\* str.length
RECURSIVE Length(_)
Length(str) == IF str = << >> THEN 0 ELSE Head(str).n + Length(Tail(str))

\* str.substring(0, k)
RECURSIVE Substring0(_, _)
Substring0(str, k) ==
  IF str = << >> \/ k <= 0 THEN << >>
  ELSE IF Head(str).n <= k
       THEN <<Head(str)>> \o Substring0(Tail(str), k - Head(str).n)
       ELSE <<[Head(str) EXCEPT !.n = k]>>

\* The loop of extractPDFText over the pages 1..i: fullText after page i.
RECURSIVE FullText(_, _)
FullText(pages, i) ==
  IF i = 0 THEN << >>
  ELSE FullText(pages, i - 1) \o <<PageMarker(i), PageText(pages[i], i)>>

\* extractPDFText: pdfjs opens the buffer and every page in turn; whatever it
\* throws, for the document or for a page, leaves the function as an Error.
extractPDFText(doc) ==
  IF doc.parseable /\ \A i \in 1..Len(doc.pages) : doc.pages[i] # "bad"
  THEN [ok |-> TRUE,
        text |-> FullText(doc.pages, Len(doc.pages)),
        pageCount |-> Len(doc.pages)]
  ELSE [ok |-> FALSE]

\* truncatedText with the comparison >= in place of >.
truncatedTextFromLimit(extractedText) ==
  IF Length(extractedText) >= MaxChars
  THEN Substring0(extractedText, MaxChars) \o TruncationMarker
  ELSE extractedText

\* truncatedText of segmentWithGroq: the text that goes into the prompt.
truncatedText(extractedText) ==
  IF Length(extractedText) > MaxChars
  THEN Substring0(extractedText, MaxChars) \o TruncationMarker
  ELSE extractedText


\* segmentWithGroq with the second replace left out: only the fence with the
\* json tag is removed.
segmentWithGroqTaggedFenceOnly(outcome) ==
  IF outcome.kind # "text" THEN [ok |-> FALSE]
  ELSE LET cleanText == Trim(ReplaceFence(outcome.content, FenceJson))
           parsed == ParseReply(cleanText)
       IN IF ~parsed.ok THEN [ok |-> FALSE]
          ELSE IF parsed.value.t # "object" THEN [ok |-> FALSE]
          ELSE IF "segments" \notin DOMAIN parsed.value.v THEN [ok |-> FALSE]
          ELSE [ok |-> TRUE, data |-> parsed.value.v]

\* segmentWithGroq from the reply on: the content is cleaned of fences, parsed,
\* and segmentData.segments.length is read for the log line; the parsed object
\* is returned as it is.  Every exception becomes "Segmentation failed".
segmentWithGroq(outcome) ==
  IF outcome.kind # "text" THEN [ok |-> FALSE]
  ELSE LET cleanText == Trim(ReplaceFence(ReplaceFence(outcome.content, FenceJson), Fence))
           parsed == ParseReply(cleanText)
       IN IF ~parsed.ok THEN [ok |-> FALSE]
          ELSE IF parsed.value.t # "object" THEN [ok |-> FALSE]
          ELSE IF "segments" \notin DOMAIN parsed.value.v THEN [ok |-> FALSE]
          ELSE [ok |-> TRUE, data |-> parsed.value.v]

\* fileName.replace(/\.pdf$/i, '')
StripPdf(fileName) ==
  IF fileName # << >> /\ fileName[Len(fileName)] \in {".pdf", ".PDF"}
  THEN SubSeq(fileName, 1, Len(fileName) - 1)
  ELSE fileName

\* File names fallbackSegmentation may be called with: with and without the
\* extension, in either case, and with the extension elsewhere than at the end.
Labels ==
  {<<"d1", ".pdf">>, <<"d1", ".PDF">>, <<"d1">>, <<".pdf">>, <<".pdf", "d1">>}

\* fallbackSegmentation without its third segment.
fallbackSegmentationThree(fileName) ==
  [title |-> StripPdf(fileName),
   overview |-> "Document divided into sections for guided learning.",
   segments |-> << Seg(1, "Introduction & Overview", "beginner"),
                   Seg(2, "Core Concepts", "intermediate"),
                   Seg(3, "Summary & Review", "intermediate") >>,
   totalSegments |-> 3,
   estimatedTotalTime |-> "50-80 minutes",
   isUsingFallback |-> TRUE]

fallbackSegmentation(fileName) ==
  [title |-> StripPdf(fileName),
   overview |-> "Document divided into sections for guided learning.",
   segments |-> << Seg(1, "Introduction & Overview", "beginner"),
                   Seg(2, "Core Concepts", "intermediate"),
                   Seg(3, "Advanced Topics", "advanced"),
                   Seg(4, "Summary & Review", "intermediate") >>,
   totalSegments |-> 4,
   estimatedTotalTime |-> "50-80 minutes",
   isUsingFallback |-> TRUE]

\* new Date().toISOString() at the moment the n-th row is written.
Now(n) == [iso |-> n]

\* The row saveSegmentsToDB inserts; the store assigns the id.
NewRow(id, pdfId, userId, segmentData) ==
  [id |-> id,
   pdf_id |-> pdfId,
   user_id |-> userId,
   title |-> segmentData.title,
   overview |-> segmentData.overview,
   segments_json |-> JSONstringify(segmentData.segments),
   total_segments |-> segmentData.totalSegments,
   estimated_total_time |-> segmentData.estimatedTotalTime,
   segmentation_method |->
     IF Truthy(segmentData, "isUsingFallback") THEN "fallback" ELSE "groq",
   created_at |-> Now(id),
   updated_at |-> Now(id)]

\* The select with the filter on user_id left out.
MatchingPdfIdOnly(rows, pdfId, userId) ==
  SelectSeq(rows, LAMBDA row : row.pdf_id = pdfId)

\* .from('document_segments').select('*').eq(pdf_id).eq(user_id)
Matching(rows, pdfId, userId) ==
  SelectSeq(rows, LAMBDA row : row.pdf_id = pdfId /\ row.user_id = userId)

\* .single(): the one row of the result; a result of no row or of several rows
\* is the error PGRST116; a store that cannot be reached is another error.
Single(rows, dbOk) ==
  IF ~dbOk THEN [data |-> << >>, error |-> "unreachable"]
  ELSE IF Len(rows) = 1 THEN [data |-> <<rows[1]>>, error |-> "none"]
  ELSE [data |-> << >>, error |-> "PGRST116"]

\* getExistingSegments: the row, or null (<< >>) for PGRST116 and, through the
\* catch, for every other error.
getExistingSegments(rows, pdfId, userId, dbOk) ==
  LET res == Single(Matching(rows, pdfId, userId), dbOk) IN
  IF res.error \notin {"none", "PGRST116"} THEN << >> ELSE res.data

\* What kind of reply a generation outcome is, read off the reply itself: the
\* call threw, the message has no content, the content without its fences and
\* line breaks is not one JSON value, the value is not an object with a
\* segments field, or it is one.
ReplyClass(outcome) ==
  IF outcome.kind = "throw" THEN "threw"
  ELSE IF outcome.kind = "null content" THEN "no content"
  ELSE LET values == SelectSeq(outcome.content,
                               LAMBDA tok : tok \notin {FenceJson, Fence, NL})
       IN IF Len(values) # 1 \/ values[1] = Prose THEN "not JSON"
          ELSE IF values[1] = Scalar THEN "no segments"
          ELSE IF "segments" \notin DOMAIN values[1].v THEN "no segments"
          ELSE "segments"

\* What is observed of a prompt: how the length of the extracted text stands
\* to the limit, and whether the text in the prompt is the extracted text.
PromptSeen(extractedText, promptText) ==
  [chars |-> IF Length(extractedText) < MaxChars THEN "below the limit"
             ELSE IF Length(extractedText) = MaxChars THEN "at the limit"
             ELSE "above the limit",
   whole |-> promptText = extractedText]

\* Whether the content of a reply has code-fence markers in it.
Fenced(outcome) ==
  /\ outcome.kind = "text"
  /\ \E i \in 1..Len(outcome.content) : outcome.content[i] \in {FenceJson, Fence}

\* -------------------------------------------------------------------- state

VARIABLES
  table,    \* document_segments: the rows, in insertion order
  nextId,   \* the id the store gives the next inserted row
  pc,       \* per request: where its handler stands
  req,      \* per request: the operation and the identifiers it carries
  local,    \* per request: segmentData and saved, each << >> while unset
  hist,     \* per request: the calls the handler has made and how each ended
  resp,     \* per request: the responses sent with res.json, in order
  lastIO    \* what the outside answered in the last step, when that was a
            \* failed store read or a generation reply: the request and the kind

vars == <<table, nextId, pc, req, local, hist, resp, lastIO>>

NoIO == [run |-> 0, what |-> "none"]

NoLocal == [segmentData |-> << >>, saved |-> << >>]
NoReq == [op |-> "none", pdfId |-> MissingPdfId, userId |-> MissingUserId]
NoHist ==
  [lookups |-> 0, lookup |-> "none",
   downloads |-> 0, download |-> "none",
   extractions |-> 0, extraction |-> "none",
   generations |-> 0, generation |-> "none",
   inserts |-> 0, insert |-> "none",
   matchedAtLookup |-> 0,
   rowsAdded |-> 0,
   bodyFrom |-> "none"]

Init ==
  /\ table = << >>
  /\ nextId = 1
  /\ pc = [r \in AllRuns |-> "idle"]
  /\ req = [r \in AllRuns |-> NoReq]
  /\ local = [r \in AllRuns |-> NoLocal]
  /\ hist = [r \in AllRuns |-> NoHist]
  /\ resp = [r \in AllRuns |-> << >>]
  /\ lastIO = NoIO

\* res.status(..).json(..) of request r, which ends the handler.
Respond(r, body) ==
  /\ resp' = [resp EXCEPT ![r] = Append(@, body)]
  /\ pc' = [pc EXCEPT ![r] = "done"]

\* ------------------------------------------------------- segmentPDFEndpoint

BadRequest ==
  [status |-> 400, success |-> FALSE, error |-> "Missing required fields",
   required |-> <<"pdfId", "userId">>]

CachedResponse(existing) ==
  [status |-> 200, success |-> TRUE, cached |-> TRUE,
   message |-> "Using cached segmentation (instant)",
   data |-> [id |-> existing.id,
             title |-> existing.title,
             overview |-> existing.overview,
             segments |-> JSONparse(existing.segments_json),
             totalSegments |-> existing.total_segments,
             estimatedTime |-> existing.estimated_total_time,
             method |-> existing.segmentation_method,
             cost |-> "$0.00 (free)",
             createdAt |-> existing.created_at]]

DownloadFailed ==
  [status |-> 500, success |-> FALSE, error |-> "Failed to download PDF"]

\* The response of the catch block of the extraction: the fallback object
\* spread into data, with the id of the saved row.
ExtractionFallbackResponse(fallbackSegments, saved) ==
  [status |-> 200, success |-> TRUE,
   message |-> "Segmented with fallback method",
   warning |-> "PDF text extraction had issues, using basic segmentation",
   data |-> [title |-> fallbackSegments.title,
             overview |-> fallbackSegments.overview,
             segments |-> fallbackSegments.segments,
             totalSegments |-> fallbackSegments.totalSegments,
             estimatedTotalTime |-> fallbackSegments.estimatedTotalTime,
             isUsingFallback |-> fallbackSegments.isUsingFallback,
             id |-> saved.id,
             cost |-> "$0.00 (free)"]]

\* SegmentedResponse with the segments in the order of their difficulty, the
\* beginner ones first, whatever the order of the reply.
RECURSIVE ByDifficulty(_, _)
ByDifficulty(segments, levels) ==
  IF levels = << >> THEN << >>
  ELSE SelectSeq(segments, LAMBDA seg : seg.difficulty = Head(levels))
         \o ByDifficulty(SelectSeq(segments, LAMBDA seg : seg.difficulty # Head(levels)),
                         Tail(levels))
SegmentedResponseSorted(segmentData, saved) ==
  [status |-> 200, success |-> TRUE, cached |-> FALSE,
   message |-> "Document segmented successfully",
   data |-> [id |-> saved.id,
             title |-> segmentData.title,
             overview |-> segmentData.overview,
             segments |-> ByDifficulty(segmentData.segments,
                                       <<"beginner", "intermediate", "advanced", "expert">>),
             totalSegments |-> segmentData.totalSegments,
             estimatedTime |-> segmentData.estimatedTotalTime,
             method |->
               IF Truthy(segmentData, "isUsingFallback") THEN "fallback" ELSE "groq-free",
             cost |-> "$0.00 (completely free)",
             createdAt |-> saved.created_at]]

SegmentedResponse(segmentData, saved) ==
  [status |-> 200, success |-> TRUE, cached |-> FALSE,
   message |-> "Document segmented successfully",
   data |-> [id |-> saved.id,
             title |-> segmentData.title,
             overview |-> segmentData.overview,
             segments |-> segmentData.segments,
             totalSegments |-> segmentData.totalSegments,
             estimatedTime |-> segmentData.estimatedTotalTime,
             method |->
               IF Truthy(segmentData, "isUsingFallback") THEN "fallback" ELSE "groq-free",
             cost |-> "$0.00 (completely free)",
             createdAt |-> saved.created_at]]

\* The response of the outer catch block; the only Error that reaches it is the
\* one saveSegmentsToDB throws.
SegmentationFailed ==
  [status |-> 500, success |-> FALSE, error |-> "Segmentation failed",
   message |-> "Database save failed"]

\* The user ids a new request may carry.  The code only compares user ids, so
\* which of two ids comes first in a behaviour makes no difference: a request
\* carries an id that a request or a row already has, or the first id of
\* UserOrder that none has.
UserOrder == <<"u1", "u2">>
KnownUsers ==
  {req[q].userId : q \in AllRuns} \cup {table[i].user_id : i \in 1..Len(table)}
ArrivingUsers ==
  {UserOrder[k] : k \in {j \in 1..Len(UserOrder) :
                           \A i \in 1..(j - 1) : UserOrder[i] \in KnownUsers}}

\* When request r may arrive: the requests of RunIds in the order of their
\* numbers, LateRun once all of them have been answered.
MayArrive(r) ==
  /\ pc[r] = "idle"
  /\ IF r = LateRun
     THEN \A q \in RunIds : pc[q] = "done"
     ELSE \A q \in RunIds : q < r => pc[q] # "idle"

\* The records of the handlers that have returned are dropped when LateRun
\* arrives: nothing of them is left in the server but the rows they wrote.
Arrive(r, request, position, answer) ==
  IF r = LateRun
  THEN /\ pc' = [q \in AllRuns |-> IF q = r THEN position ELSE "closed"]
       /\ req' = [q \in AllRuns |-> IF q = r THEN request ELSE NoReq]
       /\ resp' = [q \in AllRuns |-> IF q = r THEN answer ELSE << >>]
       /\ hist' = [q \in AllRuns |-> NoHist]
       /\ local' = [q \in AllRuns |-> NoLocal]
  ELSE /\ pc' = [pc EXCEPT ![r] = position]
       /\ req' = [req EXCEPT ![r] = request]
       /\ resp' = [resp EXCEPT ![r] = answer]
       /\ UNCHANGED <<hist, local>>

\* ReceiveSegment with the cache lookup left out: the handler goes from the
\* validation straight to the download.
ReceiveSegmentNoLookup(r) ==
  /\ MayArrive(r)
  /\ \E pdfId \in PdfIds \cup {MissingPdfId}, userId \in ArrivingUsers \cup {MissingUserId} :
       LET request == [op |-> "segment", pdfId |-> pdfId, userId |-> userId] IN
       IF FalsyName(pdfId) \/ Falsy(userId)
       THEN Arrive(r, request, "done", <<BadRequest>>)
       ELSE Arrive(r, request, "download", << >>)
  /\ lastIO' = NoIO
  /\ UNCHANGED <<table, nextId>>

\* ReceiveSegment with the validation reduced to if (!pdfId).
ReceiveSegmentPdfIdOnly(r) ==
  /\ MayArrive(r)
  /\ \E pdfId \in PdfIds \cup {MissingPdfId}, userId \in ArrivingUsers \cup {MissingUserId} :
       LET request == [op |-> "segment", pdfId |-> pdfId, userId |-> userId] IN
       IF FalsyName(pdfId)
       THEN Arrive(r, request, "done", <<BadRequest>>)
       ELSE Arrive(r, request, "lookup", << >>)
  /\ lastIO' = NoIO
  /\ UNCHANGED <<table, nextId>>

\* The request arrives; the handler runs to its first await.
ReceiveSegment(r) ==
  /\ MayArrive(r)
  /\ \E pdfId \in PdfIds \cup {MissingPdfId}, userId \in ArrivingUsers \cup {MissingUserId} :
       LET request == [op |-> "segment", pdfId |-> pdfId, userId |-> userId] IN
       IF FalsyName(pdfId) \/ Falsy(userId)
       THEN Arrive(r, request, "done", <<BadRequest>>)
       ELSE Arrive(r, request, "lookup", << >>)
  /\ lastIO' = NoIO
  /\ UNCHANGED <<table, nextId>>

\* Lookup with a getExistingSegments that has no catch block: the error of a
\* failed read reaches the outer catch block of the handler.
LookupWithoutCatch(r) ==
  /\ pc[r] = "lookup"
  /\ \E dbOk \in BOOLEAN :
       LET existing == getExistingSegments(table, req[r].pdfId, req[r].userId, dbOk) IN
       /\ hist' = [hist EXCEPT ![r].lookups = @ + 1,
                               ![r].lookup = IF existing # << >> THEN "hit" ELSE "miss",
                               ![r].matchedAtLookup =
                                 IF dbOk THEN Len(Matching(table, req[r].pdfId, req[r].userId))
                                 ELSE 0]
       /\ lastIO' = IF dbOk THEN NoIO ELSE [run |-> r, what |-> "store read failed"]
       /\ IF ~dbOk THEN Respond(r, SegmentationFailed)
          ELSE IF existing # << >>
          THEN Respond(r, CachedResponse(existing[1]))
          ELSE /\ pc' = [pc EXCEPT ![r] = "download"]
               /\ UNCHANGED resp
  /\ UNCHANGED <<table, nextId, req, local>>

\* await getExistingSegments(pdfId, userId), and the cache-hit return.
Lookup(r) ==
  /\ pc[r] = "lookup"
  /\ \E dbOk \in BOOLEAN :
       LET existing == getExistingSegments(table, req[r].pdfId, req[r].userId, dbOk) IN
       /\ hist' = [hist EXCEPT ![r].lookups = @ + 1,
                               ![r].lookup = IF existing # << >> THEN "hit" ELSE "miss",
                               ![r].matchedAtLookup =
                                 IF dbOk THEN Len(Matching(table, req[r].pdfId, req[r].userId))
                                 ELSE 0]
       /\ lastIO' = IF dbOk THEN NoIO ELSE [run |-> r, what |-> "store read failed"]
       /\ IF existing # << >>
          THEN Respond(r, CachedResponse(existing[1]))
          ELSE /\ pc' = [pc EXCEPT ![r] = "download"]
               /\ UNCHANGED resp
  /\ UNCHANGED <<table, nextId, req, local>>

\* Download with the download error handled like an extraction error: the
\* fallback is built and saved.
DownloadFallingBack(r) ==
  /\ pc[r] = "download"
  /\ \E ok \in BOOLEAN :
       IF ok
       THEN /\ hist' = [hist EXCEPT ![r].downloads = @ + 1, ![r].download = "ok"]
            /\ pc' = [pc EXCEPT ![r] = "extract"]
            /\ UNCHANGED local
       ELSE /\ hist' = [hist EXCEPT ![r].downloads = @ + 1, ![r].download = "failed",
                                    ![r].bodyFrom = "fallback"]
            /\ local' = [local EXCEPT ![r].segmentData = <<fallbackSegmentation(req[r].pdfId)>>]
            /\ pc' = [pc EXCEPT ![r] = "save_fallback"]
  /\ lastIO' = NoIO
  /\ UNCHANGED <<table, nextId, req, resp>>

\* Download without the return in the branch of the download error: the
\* failed response is sent and the handler goes on to the extraction.
DownloadWithoutReturn(r) ==
  /\ pc[r] = "download"
  /\ \E ok \in BOOLEAN :
       /\ hist' = [hist EXCEPT ![r].downloads = @ + 1,
                               ![r].download = IF ok THEN "ok" ELSE "failed"]
       /\ resp' = IF ok THEN resp ELSE [resp EXCEPT ![r] = Append(@, DownloadFailed)]
       /\ pc' = [pc EXCEPT ![r] = "extract"]
  /\ lastIO' = NoIO
  /\ UNCHANGED <<table, nextId, req, local>>

\* await supabase.storage.from('academic-pdfs').download(..)
Download(r) ==
  /\ pc[r] = "download"
  /\ \E ok \in BOOLEAN :
       /\ hist' = [hist EXCEPT ![r].downloads = @ + 1,
                               ![r].download = IF ok THEN "ok" ELSE "failed"]
       /\ IF ok
          THEN /\ pc' = [pc EXCEPT ![r] = "extract"]
               /\ UNCHANGED resp
          ELSE Respond(r, DownloadFailed)
  /\ lastIO' = NoIO
  /\ UNCHANGED <<table, nextId, req, local>>

\* What kind of document the bytes are, read off the bytes themselves: not a
\* document pdfjs can open, a document with a page that cannot be decoded, or
\* a document whose pages can all be decoded.
DocClass(doc) ==
  IF ~doc.parseable THEN "not a document"
  ELSE IF \E i \in 1..Len(doc.pages) : doc.pages[i] = "bad" THEN "page undecodable"
  ELSE "document"

\* await extractPDFText(Buffer.from(pdfData)) on the bytes the download gave,
\* and what follows up to the next await: the catch block builds the fallback
\* and goes on to save it; otherwise segmentWithGroq is entered, builds the
\* prompt from truncatedText and sends it.
Extract(r) ==
  /\ pc[r] = "extract"
  /\ \E doc \in Docs :
       LET extractionResult == extractPDFText(doc) IN
       /\ IF extractionResult.ok
          THEN /\ hist' = [hist EXCEPT ![r].extractions = @ + 1, ![r].extraction = "ok"]
               /\ pc' = [pc EXCEPT ![r] = "generate"]
               /\ UNCHANGED local
          ELSE /\ hist' = [hist EXCEPT ![r].extractions = @ + 1, ![r].extraction = "failed",
                                       ![r].bodyFrom = "fallback"]
               /\ local' = [local EXCEPT ![r].segmentData = <<fallbackSegmentation(req[r].pdfId)>>]
               /\ pc' = [pc EXCEPT ![r] = "save_fallback"]
       /\ lastIO' = IF extractionResult.ok
                    THEN [run |-> r, what |-> DocClass(doc),
                          prompt |-> PromptSeen(extractionResult.text,
                                                truncatedText(extractionResult.text))]
                    ELSE [run |-> r, what |-> DocClass(doc)]
  /\ UNCHANGED <<table, nextId, req, resp>>

\* Generate without the try/catch around segmentWithGroq: its Error reaches
\* the outer catch block.
GenerateWithoutCatch(r) ==
  /\ pc[r] = "generate"
  /\ \E outcome \in GroqOutcomes :
       LET result == segmentWithGroq(outcome) IN
       /\ hist' = [hist EXCEPT ![r].generations = @ + 1,
                               ![r].generation = IF result.ok THEN "ok" ELSE "failed",
                               ![r].bodyFrom = IF result.ok THEN "generated" ELSE "none"]
       /\ IF result.ok
          THEN /\ local' = [local EXCEPT ![r].segmentData = <<result.data>>]
               /\ pc' = [pc EXCEPT ![r] = "save"]
               /\ UNCHANGED resp
          ELSE /\ Respond(r, SegmentationFailed)
               /\ UNCHANGED local
       /\ lastIO' = [run |-> r, what |-> ReplyClass(outcome), fenced |-> Fenced(outcome)]
  /\ UNCHANGED <<table, nextId, req>>

\* Generate with a second call of segmentWithGroq when the first one fails.
GenerateRetrying(r) ==
  /\ pc[r] = "generate"
  /\ \E outcome \in GroqOutcomes :
       LET result == segmentWithGroq(outcome)
           again == ~result.ok /\ hist[r].generations = 0
       IN
       /\ hist' = [hist EXCEPT ![r].generations = @ + 1,
                               ![r].generation = IF result.ok THEN "ok" ELSE "failed",
                               ![r].bodyFrom = IF result.ok THEN "generated"
                                               ELSE IF again THEN "none" ELSE "fallback"]
       /\ local' = [local EXCEPT ![r].segmentData =
                      IF result.ok THEN <<result.data>>
                      ELSE IF again THEN << >>
                      ELSE <<fallbackSegmentation(req[r].pdfId)>>]
       /\ lastIO' = [run |-> r, what |-> ReplyClass(outcome), fenced |-> Fenced(outcome)]
       /\ pc' = [pc EXCEPT ![r] = IF again THEN "generate" ELSE "save"]
  /\ UNCHANGED <<table, nextId, req, resp>>

\* await segmentWithGroq(extractionResult.text, pdfId), with its catch block.
Generate(r) ==
  /\ pc[r] = "generate"
  /\ \E outcome \in GroqOutcomes :
       LET result == segmentWithGroq(outcome) IN
       /\ hist' = [hist EXCEPT ![r].generations = @ + 1,
                               ![r].generation = IF result.ok THEN "ok" ELSE "failed",
                               ![r].bodyFrom = IF result.ok THEN "generated" ELSE "fallback"]
       /\ local' = [local EXCEPT ![r].segmentData =
                      IF result.ok THEN <<result.data>>
                      ELSE <<fallbackSegmentation(req[r].pdfId)>>]
       /\ lastIO' = [run |-> r, what |-> ReplyClass(outcome), fenced |-> Fenced(outcome)]
  /\ pc' = [pc EXCEPT ![r] = "save"]
  /\ UNCHANGED <<table, nextId, req, resp>>

\* Save with the insert of the extraction catch block outside the outer try:
\* when that insert fails, the handler ends without a response.
SaveUncaughtInCatch(r) ==
  /\ pc[r] \in {"save", "save_fallback"}
  /\ \E dbOk \in BOOLEAN :
       LET segmentData == local[r].segmentData[1]
           saved == NewRow(nextId, req[r].pdfId, req[r].userId, segmentData)
       IN
       /\ IF dbOk
          THEN /\ table' = Append(table, saved)
               /\ nextId' = nextId + 1
               /\ local' = [local EXCEPT ![r].saved = <<saved>>]
               /\ Respond(r, IF pc[r] = "save_fallback"
                             THEN ExtractionFallbackResponse(segmentData, saved)
                             ELSE SegmentedResponse(segmentData, saved))
          ELSE /\ IF pc[r] = "save_fallback"
                  THEN pc' = [pc EXCEPT ![r] = "done"] /\ UNCHANGED resp
                  ELSE Respond(r, SegmentationFailed)
               /\ UNCHANGED <<table, nextId, local>>
       /\ hist' = [hist EXCEPT ![r].inserts = @ + 1,
                               ![r].insert = IF dbOk THEN "ok" ELSE "failed",
                               ![r].rowsAdded = @ + Len(table') - Len(table)]
  /\ lastIO' = NoIO
  /\ UNCHANGED req

\* Save with the return of the extraction catch block left out: after the
\* fallback response the handler goes on to the generation and saves again.
SaveWithoutReturn(r) ==
  /\ pc[r] \in {"save", "save_fallback"}
  /\ \E dbOk \in BOOLEAN :
       LET segmentData == local[r].segmentData[1]
           saved == NewRow(nextId, req[r].pdfId, req[r].userId, segmentData)
       IN
       /\ IF dbOk
          THEN /\ table' = Append(table, saved)
               /\ nextId' = nextId + 1
               /\ local' = [local EXCEPT ![r].saved = <<saved>>]
               /\ IF pc[r] = "save_fallback"
                  THEN /\ resp' = [resp EXCEPT ![r] =
                                     Append(@, ExtractionFallbackResponse(segmentData, saved))]
                       /\ pc' = [pc EXCEPT ![r] = "generate"]
                  ELSE Respond(r, SegmentedResponse(segmentData, saved))
          ELSE /\ Respond(r, SegmentationFailed)
               /\ UNCHANGED <<table, nextId, local>>
       /\ hist' = [hist EXCEPT ![r].inserts = @ + 1,
                               ![r].insert = IF dbOk THEN "ok" ELSE "failed",
                               ![r].rowsAdded = @ + Len(table') - Len(table)]
  /\ lastIO' = NoIO
  /\ UNCHANGED req

\* Save with an insert that replaces the rows the pair already has.
SaveReplacing(r) ==
  /\ pc[r] \in {"save", "save_fallback"}
  /\ \E dbOk \in BOOLEAN :
       LET segmentData == local[r].segmentData[1]
           saved == NewRow(nextId, req[r].pdfId, req[r].userId, segmentData)
       IN
       /\ IF dbOk
          THEN /\ table' = Append(SelectSeq(table, LAMBDA row :
                                    ~(row.pdf_id = req[r].pdfId /\ row.user_id = req[r].userId)),
                                  saved)
               /\ nextId' = nextId + 1
               /\ local' = [local EXCEPT ![r].saved = <<saved>>]
               /\ Respond(r, IF pc[r] = "save_fallback"
                             THEN ExtractionFallbackResponse(segmentData, saved)
                             ELSE SegmentedResponse(segmentData, saved))
          ELSE /\ Respond(r, SegmentationFailed)
               /\ UNCHANGED <<table, nextId, local>>
       /\ hist' = [hist EXCEPT ![r].inserts = @ + 1,
                               ![r].insert = IF dbOk THEN "ok" ELSE "failed",
                               ![r].rowsAdded = IF dbOk THEN 1 ELSE 0]
  /\ lastIO' = NoIO
  /\ UNCHANGED req

\* Save with an insert the store refuses when the pair already has a row.
SaveUnlessStored(r) ==
  /\ pc[r] \in {"save", "save_fallback"}
  /\ \E dbOk \in BOOLEAN :
       LET segmentData == local[r].segmentData[1]
           saved == NewRow(nextId, req[r].pdfId, req[r].userId, segmentData)
           accepted == dbOk /\ Matching(table, req[r].pdfId, req[r].userId) = << >>
       IN
       /\ IF accepted
          THEN /\ table' = Append(table, saved)
               /\ nextId' = nextId + 1
               /\ local' = [local EXCEPT ![r].saved = <<saved>>]
               /\ Respond(r, IF pc[r] = "save_fallback"
                             THEN ExtractionFallbackResponse(segmentData, saved)
                             ELSE SegmentedResponse(segmentData, saved))
          ELSE /\ Respond(r, SegmentationFailed)
               /\ UNCHANGED <<table, nextId, local>>
       /\ hist' = [hist EXCEPT ![r].inserts = @ + 1,
                               ![r].insert = IF accepted THEN "ok" ELSE "failed",
                               ![r].rowsAdded = @ + Len(table') - Len(table)]
  /\ lastIO' = NoIO
  /\ UNCHANGED req

\* await saveSegmentsToDB(pdfId, userId, segmentData) and what follows it: the
\* response of the path the handler is on, or, when the insert fails, the
\* response of the outer catch block.
Save(r) ==
  /\ pc[r] \in {"save", "save_fallback"}
  /\ \E dbOk \in BOOLEAN :
       LET segmentData == local[r].segmentData[1]
           saved == NewRow(nextId, req[r].pdfId, req[r].userId, segmentData)
       IN
       /\ IF dbOk
          THEN /\ table' = Append(table, saved)
               /\ nextId' = nextId + 1
               /\ local' = [local EXCEPT ![r].saved = <<saved>>]
               /\ Respond(r, IF pc[r] = "save_fallback"
                             THEN ExtractionFallbackResponse(segmentData, saved)
                             ELSE SegmentedResponse(segmentData, saved))
          ELSE /\ Respond(r, SegmentationFailed)
               /\ UNCHANGED <<table, nextId, local>>
       /\ hist' = [hist EXCEPT ![r].inserts = @ + 1,
                               ![r].insert = IF dbOk THEN "ok" ELSE "failed",
                               ![r].rowsAdded = @ + Len(table') - Len(table)]
  /\ lastIO' = NoIO
  /\ UNCHANGED req

\* ------------------------------------------------------ getSegmentsEndpoint

\* What the route hands the two other handlers: req.params.pdfId, which a
\* matched route always has, and req.user?.id, missing when no user is attached
\* to the request.
Unauthorized == [status |-> 401, success |-> FALSE, error |-> "Unauthorized"]

NotFound ==
  [status |-> 404, success |-> FALSE, error |-> "Segmentation not found",
   message |-> "This PDF has not been segmented yet"]

FoundResponse(existing) ==
  [status |-> 200, success |-> TRUE,
   data |-> [id |-> existing.id,
             pdfId |-> existing.pdf_id,
             title |-> existing.title,
             overview |-> existing.overview,
             segments |-> JSONparse(existing.segments_json),
             totalSegments |-> existing.total_segments,
             estimatedTime |-> existing.estimated_total_time,
             method |-> existing.segmentation_method,
             cost |-> "$0.00 (free)",
             createdAt |-> existing.created_at,
             updatedAt |-> existing.updated_at]]

\* The request arrives; the handler runs to its await, or answers 401.
ReceiveGetSegments(r) ==
  /\ MayArrive(r)
  /\ \E pdfId \in PdfIds, userId \in ArrivingUsers \cup {MissingUserId} :
       LET request == [op |-> "get", pdfId |-> pdfId, userId |-> userId] IN
       IF Falsy(userId)
       THEN Arrive(r, request, "done", <<Unauthorized>>)
       ELSE Arrive(r, request, "get", << >>)
  /\ lastIO' = NoIO
  /\ UNCHANGED <<table, nextId>>

\* await getExistingSegments(pdfId, userId) and the response.  (The catch block
\* of the handler is not reached: segments_json is always a JSON text.)
GetSegments(r) ==
  /\ pc[r] = "get"
  /\ \E dbOk \in BOOLEAN :
       LET existing == getExistingSegments(table, req[r].pdfId, req[r].userId, dbOk) IN
       /\ lastIO' = IF dbOk THEN NoIO ELSE [run |-> r, what |-> "store read failed"]
       /\ Respond(r, IF existing = << >> THEN NotFound ELSE FoundResponse(existing[1]))
  /\ UNCHANGED <<table, nextId, req, local, hist>>

\* --------------------------------------------------- deleteSegmentsEndpoint

Deleted ==
  [status |-> 200, success |-> TRUE, message |-> "Segmentation deleted successfully"]

DeleteFailed ==
  [status |-> 500, success |-> FALSE, error |-> "Failed to delete segments"]

\* The delete with the filter on user_id left out.
RemainingOfOtherDocuments(rows, pdfId, userId) ==
  SelectSeq(rows, LAMBDA row : row.pdf_id # pdfId)

\* .from('document_segments').delete().eq(pdf_id).eq(user_id): the rows left.
Remaining(rows, pdfId, userId) ==
  SelectSeq(rows, LAMBDA row : ~(row.pdf_id = pdfId /\ row.user_id = userId))

ReceiveDeleteSegments(r) ==
  /\ MayArrive(r)
  /\ \E pdfId \in PdfIds, userId \in ArrivingUsers \cup {MissingUserId} :
       LET request == [op |-> "delete", pdfId |-> pdfId, userId |-> userId] IN
       IF Falsy(userId)
       THEN Arrive(r, request, "done", <<Unauthorized>>)
       ELSE Arrive(r, request, "delete", << >>)
  /\ lastIO' = NoIO
  /\ UNCHANGED <<table, nextId>>

\* DeleteSegments with a delete that removes one row of the pair, the oldest.
DeleteSegmentsOldestRow(r) ==
  /\ pc[r] = "delete"
  /\ \E dbOk \in BOOLEAN :
       IF dbOk
       THEN /\ table' = LET mine == Matching(table, req[r].pdfId, req[r].userId) IN
                        IF mine = << >> THEN table
                        ELSE SelectSeq(table, LAMBDA row : row.id # mine[1].id)
            /\ Respond(r, Deleted)
       ELSE /\ UNCHANGED table
            /\ Respond(r, DeleteFailed)
  /\ lastIO' = NoIO
  /\ UNCHANGED <<nextId, req, local, hist>>

\* await of the delete and the response: the store removes every row of the
\* pair, or it reports an error and removes nothing.  (A delete is not a
\* single-row read, so the error is never PGRST116.)
DeleteSegments(r) ==
  /\ pc[r] = "delete"
  /\ \E dbOk \in BOOLEAN :
       IF dbOk
       THEN /\ table' = Remaining(table, req[r].pdfId, req[r].userId)
            /\ Respond(r, Deleted)
       ELSE /\ UNCHANGED table
            /\ Respond(r, DeleteFailed)
  /\ lastIO' = NoIO
  /\ UNCHANGED <<nextId, req, local, hist>>

Next ==
  \E r \in AllRuns :
    \/ ReceiveSegment(r)
    \/ Lookup(r)
    \/ Download(r)
    \/ Extract(r)
    \/ Generate(r)
    \/ Save(r)
    \/ ReceiveGetSegments(r)
    \/ GetSegments(r)
    \/ ReceiveDeleteSegments(r)
    \/ DeleteSegments(r)

Spec == Init /\ [][Next]_vars

\* A step of the handler of request r: the call it awaits returns or fails.
HandlerStep(r) ==
  \/ Lookup(r) \/ Download(r) \/ Extract(r) \/ Generate(r) \/ Save(r)
  \/ GetSegments(r) \/ DeleteSegments(r)

\* The behaviours in which the calls the handlers await return or fail in the
\* end: as long as some handler awaits a call, some awaited call returns or
\* fails.  (A handler that awaits a call awaits it until it returns, so this
\* holds when every awaited call returns or fails in the end.)  Nothing is
\* assumed about the arrival of requests.
FairSpec == Spec /\ WF_vars(\E r \in AllRuns : HandlerStep(r))

\* ----------------------------------------------------- protected endpoints
\*
\* The routes GET /api/auth/profile and POST /api/auth/logout of
\* backend/routes/auth.routes.js: authenticateToken, then getProfile or logout.
\* Their requests use pc, req, resp and local like the other requests; the
\* document_segments table is not touched.

\* What an Authorization header can carry after the scheme: nothing, a text
\* that is not a JWT, a JWT signed with another secret, or a JWT that
\* generateToken has signed for a user.
NoToken == [kind |-> "none", secret |-> "", userId |-> ""]
generateToken(userId) == [kind |-> "jwt", secret |-> "JWT_SECRET", userId |-> userId]
HeaderTokens ==
  { NoToken,
    [kind |-> "text", secret |-> "", userId |-> ""],
    [kind |-> "jwt", secret |-> "another secret", userId |-> UserOrder[1]],
    generateToken(UserOrder[1]) }

\* The Authorization header: missing, the scheme alone, or the scheme and a
\* token; authHeader && authHeader.split(' ')[1] is the second word if any.
Headers ==
  {<< >>, <<"Bearer">>} \cup {<<"Bearer", t>> : t \in HeaderTokens \ {NoToken}}
TokenOf(authHeader) == IF Len(authHeader) >= 2 THEN authHeader[2] ELSE NoToken

\* jwt.verify with an expired token accepted.
jwtVerifyIgnoringExpiration(token, expired) ==
  IF token.kind # "jwt" THEN [error |-> "JsonWebTokenError"]
  ELSE IF token.secret # "JWT_SECRET" THEN [error |-> "JsonWebTokenError"]
  ELSE [error |-> "none", userId |-> token.userId]

\* jwt.verify(token, process.env.JWT_SECRET) at a moment at which the 24 hours
\* of the token have passed (expired) or have not: the decoded payload, or the
\* name of the error thrown.
jwtVerify(token, expired) ==
  IF token.kind # "jwt" THEN [error |-> "JsonWebTokenError"]
  ELSE IF token.secret # "JWT_SECRET" THEN [error |-> "JsonWebTokenError"]
  ELSE IF expired THEN [error |-> "TokenExpiredError"]
  ELSE [error |-> "none", userId |-> token.userId]

NoTokenProvided ==
  [status |-> 401, success |-> FALSE, error |-> "Access denied. No token provided."]
InvalidToken == [status |-> 401, success |-> FALSE, error |-> "Invalid token."]
TokenExpired ==
  [status |-> 401, success |-> FALSE, error |-> "Token expired. Please login again."]
InvalidOrExpired ==
  [status |-> 401, success |-> FALSE, error |-> "Invalid or expired token."]
AuthenticationFailed ==
  [status |-> 500, success |-> FALSE, error |-> "Authentication failed."]
ProfileResponse(user) ==
  [status |-> 200, success |-> TRUE, data |-> [user |-> [id |-> user.id]]]
LogoutSuccessful == [status |-> 200, success |-> TRUE, message |-> "Logout successful!"]
LogoutFailed == [status |-> 500, success |-> FALSE, error |-> "Logout failed."]
LogoutFailedTryAgain ==
  [status |-> 500, success |-> FALSE, error |-> "Logout failed. Please try again."]

\* The two texts of authenticateToken the sources hold: the one that asks
\* Supabase for the user of the token after jwt.verify, and the one that does
\* not.  A server runs one of them for all its requests.
Middlewares == {"verify and getUser", "verify"}
Protected(q) == req[q].op \in {"profile", "logout"}
MiddlewareInUse ==
  IF \E q \in RunIds : Protected(q)
  THEN {req[q].middleware : q \in {x \in RunIds : Protected(x)}}
  ELSE Middlewares

\* Whether the 24 hours of a token may still be running when a request
\* arrives: not if an earlier request has found it expired.
MayBeUnexpired(token) ==
  \A q \in RunIds : (Protected(q) /\ req[q].token = token) => ~req[q].expired

\* next(): the route handler starts with req.user attached.  getProfile
\* answers at once; logout runs to its await of supabase.auth.signOut().
RunHandler(r, op, user) ==
  /\ local' = [local EXCEPT ![r] = [user |-> <<user>>, handler |-> op]]
  /\ IF op = "profile"
     THEN Respond(r, ProfileResponse(user))
     ELSE pc' = [pc EXCEPT ![r] = "signOut"] /\ UNCHANGED resp

\* The request arrives and authenticateToken runs to its return or its await.
\* The request record keeps which requests had been answered on arrival.
ReceiveProtected(r) ==
  /\ r \in RunIds /\ pc[r] = "idle"
  /\ \A q \in RunIds : q < r => pc[q] # "idle"
  /\ \E op \in {"profile", "logout"}, authHeader \in Headers,
        expired \in BOOLEAN, middleware \in MiddlewareInUse :
       LET token == TokenOf(authHeader)
           decoded == jwtVerify(token, expired)
           user == [id |-> decoded.userId, token |-> token]
       IN
       /\ (token.kind = "jwt" /\ token.secret = "JWT_SECRET") \/ ~expired
       /\ ~expired => MayBeUnexpired(token)
       /\ req' = [req EXCEPT ![r] =
                    [op |-> op, token |-> token, expired |-> expired,
                     middleware |-> middleware,
                     answered |-> {q \in RunIds : pc[q] = "done"}]]
       /\ IF token = NoToken
          THEN /\ Respond(r, NoTokenProvided)
               /\ local' = [local EXCEPT ![r] = [user |-> << >>, handler |-> "none"]]
          ELSE IF decoded.error = "JsonWebTokenError"
          THEN /\ Respond(r, InvalidToken)
               /\ local' = [local EXCEPT ![r] = [user |-> << >>, handler |-> "none"]]
          ELSE IF decoded.error = "TokenExpiredError"
          THEN /\ Respond(r, TokenExpired)
               /\ local' = [local EXCEPT ![r] = [user |-> << >>, handler |-> "none"]]
          ELSE IF middleware = "verify and getUser"
          THEN /\ pc' = [pc EXCEPT ![r] = "getUser"]
               /\ local' = [local EXCEPT ![r] = [user |-> << >>, handler |-> "none"]]
               /\ UNCHANGED resp
          ELSE RunHandler(r, op, user)
  /\ lastIO' = NoIO
  /\ UNCHANGED <<table, nextId, hist>>

\* await supabase.auth.getUser(token): Supabase knows the user of the token,
\* or reports an error or no user, or the call throws.
GetUser(r) ==
  /\ pc[r] = "getUser"
  /\ \E outcome \in {"user", "error", "throws"} :
       IF outcome = "user"
       THEN RunHandler(r, req[r].op, [id |-> req[r].token.userId, token |-> req[r].token])
       ELSE /\ Respond(r, IF outcome = "error" THEN InvalidOrExpired
                          ELSE AuthenticationFailed)
            /\ UNCHANGED local
  /\ lastIO' = NoIO
  /\ UNCHANGED <<table, nextId, hist, req>>

\* await supabase.auth.signOut() of logout, and its response.  The call ends
\* the session of the Supabase client of the server; no token is recorded.
SignOut(r) ==
  /\ pc[r] = "signOut"
  /\ \E outcome \in {"signed out", "error", "throws"} :
       Respond(r, IF outcome = "signed out" THEN LogoutSuccessful
                  ELSE IF outcome = "error" THEN LogoutFailed
                  ELSE LogoutFailedTryAgain)
  /\ lastIO' = NoIO
  /\ UNCHANGED <<table, nextId, hist, req, local>>

AuthNext ==
  \E r \in RunIds :
    \/ ReceiveProtected(r)
    \/ GetUser(r)
    \/ SignOut(r)

AuthSpec == Init /\ [][AuthNext]_vars

\* ------------------------------------------------------------------ claims

Segmenting(r) == req[r].op = "segment" /\ pc[r] # "idle"
Answered(r) == pc[r] = "done" /\ Len(resp[r]) = 1
Answer(r) == resp[r][1]

\* C1: whenever a segment request carries both identifiers and the store, when
\* it answers the cache read, holds a Segmentation for the pair, the run
\* answers cached = true with the values of a stored row of the pair (the row
\* of the answered id, as long as no delete has removed it) and makes no
\* download, extraction, generation call or insert.
C1_StoredPairIsServedFromCache ==
  \A r \in AllRuns :
    (Segmenting(r) /\ hist[r].lookups = 1 /\ hist[r].matchedAtLookup >= 1)
      => /\ Answered(r)
         /\ Answer(r).success
         /\ "cached" \in DOMAIN Answer(r) /\ Answer(r).cached
         /\ Answer(r).message = "Using cached segmentation (instant)"
         /\ \A i \in 1..Len(table) :
              table[i].id = Answer(r).data.id
                => /\ table[i].pdf_id = req[r].pdfId /\ table[i].user_id = req[r].userId
                   /\ Answer(r) = CachedResponse(table[i])
         /\ hist[r].downloads = 0 /\ hist[r].extractions = 0
         /\ hist[r].generations = 0 /\ hist[r].inserts = 0

C3_ExtractionFailureAnswersFallback ==
  \A r \in AllRuns :
    (Segmenting(r) /\ hist[r].extraction = "failed" /\ hist[r].insert = "ok")
      => /\ Answered(r)
         /\ Answer(r).success
         /\ Answer(r).data.totalSegments = 4
         /\ "method" \in DOMAIN Answer(r).data
         /\ Answer(r).data.method = "fallback"
         /\ hist[r].rowsAdded = 1 /\ local[r].saved # << >>
         /\ LET saved == local[r].saved[1] IN
              /\ saved.id = Answer(r).data.id
              /\ saved.pdf_id = req[r].pdfId /\ saved.user_id = req[r].userId
              /\ saved.segmentation_method = "fallback"
              /\ Len(JSONparse(saved.segments_json)) = 4

\* C4: when the generation stage fails (the call throws, the reply has no
\* content, the content is not JSON, or the JSON has no segments field) the
\* handler goes on with the fallback body; provided the insert succeeds, the
\* fallback is stored with method = fallback and the response has
\* success = true and method = fallback.  The only failed response such a run
\* can get is the one of a failed insert.
C4_GenerationFailureIsAbsorbed ==
  \A r \in AllRuns :
    /\ (lastIO.run = r /\ lastIO.what \in {"threw", "no content", "not JSON", "no segments"})
         => hist[r].generation = "failed" /\ pc[r] = "save"
    /\ (Segmenting(r) /\ hist[r].generation = "failed")
         => /\ pc[r] \in {"save", "done"}
            /\ hist[r].bodyFrom = "fallback"
            /\ local[r].segmentData = <<fallbackSegmentation(req[r].pdfId)>>
            /\ pc[r] = "done" =>
                 /\ Answered(r)
                 /\ hist[r].insert \in {"ok", "failed"}
                 /\ Answer(r).success <=> hist[r].insert = "ok"
                 /\ hist[r].insert = "ok" =>
                      /\ Answer(r).data.method = "fallback"
                      /\ Answer(r).data.segments = fallbackSegmentation(req[r].pdfId).segments
                      /\ local[r].saved # << >>
                      /\ local[r].saved[1].segmentation_method = "fallback"
                      /\ JSONparse(local[r].saved[1].segments_json)
                           = fallbackSegmentation(req[r].pdfId).segments
                      /\ hist[r].rowsAdded = 1

C4_Witness ==
  \E r \in AllRuns :
    /\ Segmenting(r) /\ hist[r].generation = "failed" /\ hist[r].insert = "ok"
    /\ pc[r] = "done" /\ Answer(r).success

\* C5: a failed insert is answered with success = false on every path that
\* reaches the insert (generated body, fallback after a generation failure,
\* fallback after an extraction failure), and the run leaves no row behind.
C5_InsertFailureIsSurfaced ==
  \A r \in AllRuns :
    (Segmenting(r) /\ hist[r].insert = "failed")
      => /\ Answered(r)
         /\ ~Answer(r).success
         /\ Answer(r) = SegmentationFailed
         /\ hist[r].rowsAdded = 0
         /\ local[r].saved = << >>

C5_Witness ==
  \E r \in AllRuns :
    Segmenting(r) /\ hist[r].extraction = "failed" /\ hist[r].insert = "failed"

\* C6: no download, extraction, generation call or insert of a run happens
\* before the run's cache lookup has completed and reported no Segmentation.
C6_LookupBeforeExternalCalls ==
  \A r \in AllRuns :
    /\ (hist[r].downloads > 0 \/ hist[r].extractions > 0
          \/ hist[r].generations > 0 \/ hist[r].inserts > 0
          \/ pc[r] \in {"download", "extract", "generate", "save", "save_fallback"})
         => hist[r].lookups = 1 /\ hist[r].lookup = "miss"
    /\ pc[r] = "lookup"
         => hist[r].downloads = 0 /\ hist[r].generations = 0 /\ hist[r].lookups = 0

C6_Witness ==
  \E r \in AllRuns : hist[r].generations = 1 /\ hist[r].lookup = "miss"

C8_MissingIdentifierIsRejected ==
  \A r \in AllRuns :
    (Segmenting(r) /\ (FalsyName(req[r].pdfId) \/ Falsy(req[r].userId)))
      => /\ Answered(r)
         /\ Answer(r) = BadRequest
         /\ ~Answer(r).success /\ Answer(r).status = 400
         /\ hist[r] = NoHist
         /\ local[r] = NoLocal

C8_Witness ==
  \E r \in AllRuns :
    Segmenting(r) /\ ~FalsyName(req[r].pdfId) /\ Falsy(req[r].userId) /\ pc[r] = "done"

\* C9: in every stored row and in every success response, totalSegments is the
\* number of elements of segments.
C9_TotalIsSegmentCount ==
  /\ \A i \in 1..Len(table) :
       table[i].total_segments = Len(JSONparse(table[i].segments_json))
  /\ \A r \in AllRuns :
       (Answered(r) /\ Answer(r).success /\ "data" \in DOMAIN Answer(r))
         => Answer(r).data.totalSegments = Len(Answer(r).data.segments)

\* C10: in every stored row and in every success response, the id of the
\* segment at position i is i.
C10_SegmentIdsArePositions ==
  /\ \A i \in 1..Len(table) :
       LET segments == JSONparse(table[i].segments_json) IN
       \A k \in 1..Len(segments) : segments[k].id = k
  /\ \A r \in AllRuns :
       (Answered(r) /\ Answer(r).success /\ "data" \in DOMAIN Answer(r))
         => \A k \in 1..Len(Answer(r).data.segments) : Answer(r).data.segments[k].id = k

\* The fields a segment must have and the three difficulties, as the
\* specification lists them.
RequiredSegmentFields ==
  {"title", "description", "keyPoints", "difficulty", "estimatedTime", "learningObjectives"}
Difficulties == {"beginner", "intermediate", "advanced"}
WellFormed(body) ==
  /\ body.segments # << >>
  /\ \A k \in 1..Len(body.segments) :
       /\ RequiredSegmentFields \subseteq DOMAIN body.segments[k]
       /\ body.segments[k].difficulty \in Difficulties

\* C11: a generation reply that parses as JSON but has an empty segments
\* array, a segment without a required field or a segment with a difficulty
\* outside the three values is rejected: the body a run takes from the
\* generation, stores and returns as generated is always well formed.
C11_MalformedReplyIsRejected ==
  \A r \in AllRuns :
    (Segmenting(r) /\ hist[r].bodyFrom = "generated")
      => /\ WellFormed(local[r].segmentData[1])
         /\ local[r].saved # << >> => WellFormed([segments |-> JSONparse(local[r].saved[1].segments_json)])

\* The rows of a pair, and of the pair of request r.
RowsOf(rows, pdfId, userId) ==
  SelectSeq(rows, LAMBDA row : row.pdf_id = pdfId /\ row.user_id = userId)
RowsOfPair(rows, r) == RowsOf(rows, req[r].pdfId, req[r].userId)
RowIds(rows) == {rows[i].id : i \in 1..Len(rows)}

\* C12: a segment run that starts after a segment run for the same pair has
\* completed with success, with no delete for the pair in between, returns
\* cached = true with the id of the stored Segmentation, and the store holds
\* exactly one Segmentation for the pair.  Stated for the request that arrives
\* when all others have been answered: every row its pair has at its cache
\* lookup was written by a run that answered success before it arrived, and
\* nothing else runs between its arrival and its lookup.
C12_SecondRunIsCacheHit ==
  [][ ( /\ req[LateRun].op = "segment"
        /\ pc[LateRun] = "lookup" /\ pc'[LateRun] # "lookup"
        /\ RowsOfPair(table, LateRun) # << >> )
      => /\ pc'[LateRun] = "done"
         /\ Len(resp'[LateRun]) = 1
         /\ resp'[LateRun][1].success
         /\ "cached" \in DOMAIN resp'[LateRun][1] /\ resp'[LateRun][1].cached
         /\ resp'[LateRun][1].data.id \in RowIds(RowsOfPair(table, LateRun))
         /\ Len(RowsOfPair(table', LateRun)) = 1 ]_vars

\* C13: when deleteSegments for a pair answers success, no row of the pair is
\* left, however many there were; and a getSegments that finds no row of its
\* pair answers not-found.  So a getSegments that follows a successful delete
\* for the same pair, with no insert for the pair in between, answers
\* not-found.
C13_DeleteThenGetIsNotFound ==
  [][ \A r \in AllRuns :
        /\ (pc[r] = "delete" /\ pc'[r] = "done" /\ resp'[r][1].success)
             => /\ RowsOfPair(table', r) = << >>
                /\ resp'[r] = <<Deleted>>
        /\ (pc[r] = "get" /\ pc'[r] = "done" /\ RowsOfPair(table, r) = << >>)
             => /\ resp'[r] = <<NotFound>>
                /\ ~resp'[r][1].success /\ resp'[r][1].status = 404
                /\ table' = table ]_vars

\* A row of the first user has been stored and deleted (one row was ever
\* stored and the table is empty: a delete has answered success), and the
\* getSegments of that user that arrived after the delete was answered has got
\* not-found.
C13_Witness ==
  /\ req[LateRun].op = "get" /\ req[LateRun].userId = UserOrder[1]
  /\ Answered(LateRun) /\ Answer(LateRun) = NotFound
  /\ nextId = 2 /\ table = << >>

\* C14: a stored Segmentation is never changed or replaced: every row of the
\* table is still there, unchanged, after every step, unless the step is the
\* delete of a deleteSegments request for the pair of the row; and a step of a
\* segment run leaves all rows there are as they are, in their order.
C14_StoredRowsOnlyGoByDelete ==
  [][ /\ \A i \in 1..Len(table) :
           \/ \E j \in 1..Len(table') : table'[j] = table[i]
           \/ \E r \in AllRuns :
                /\ req[r].op = "delete" /\ pc[r] = "delete" /\ pc'[r] = "done"
                /\ req[r].pdfId = table[i].pdf_id /\ req[r].userId = table[i].user_id
      /\ \A r \in AllRuns :
           (req[r].op = "segment" /\ pc'[r] # pc[r])
             => /\ Len(table') >= Len(table)
                /\ SubSeq(table', 1, Len(table)) = table ]_vars

\* A segment run has inserted its row while an older row of its pair was
\* stored, and the older row is still there.
C14_Witness ==
  \E r \in AllRuns :
    /\ Segmenting(r) /\ hist[r].rowsAdded = 1
    /\ \E i \in 1..Len(table) :
         /\ table[i].pdf_id = req[r].pdfId /\ table[i].user_id = req[r].userId
         /\ table[i].id < local[r].saved[1].id

\* C15: nothing keeps a segment run that has reached the insert from
\* inserting: whatever rows the table holds, the insert that the store accepts
\* appends the row of the run.  Two runs for one pair that have both looked up
\* before either has inserted therefore both insert, and the table gets two
\* rows for the pair.
C15_InsertIsNeverRefusedForAStoredPair ==
  \A r \in AllRuns :
    pc[r] \in {"save", "save_fallback"}
      => ENABLED ( /\ Save(r)
                   /\ table' = Append(table, NewRow(nextId, req[r].pdfId, req[r].userId,
                                                     local[r].segmentData[1])) )

\* Two runs for one pair have both missed the cache with no row stored and
\* have both inserted: the table holds the two rows.
C15_Witness ==
  \E r1, r2 \in RunIds :
    /\ r1 # r2 /\ Segmenting(r1) /\ Segmenting(r2)
    /\ req[r1].pdfId = req[r2].pdfId /\ req[r1].userId = req[r2].userId
    /\ hist[r1].lookup = "miss" /\ hist[r2].lookup = "miss"
    /\ hist[r1].rowsAdded = 1 /\ hist[r2].rowsAdded = 1
    /\ Len(RowsOfPair(table, r1)) = 2
    /\ RowIds(RowsOfPair(table, r1)) = {local[r1].saved[1].id, local[r2].saved[1].id}

\* C16: runs for different pairs are independent.  The rows of a pair change
\* only in the insert of a segment request or the delete of a deleteSegments
\* request for that very pair; and what a cache lookup or a getSegments
\* answers is decided by the rows of its own pair alone: a stored row is
\* answered exactly when the pair has one row and the read is answered, and
\* the row answered is that row.
C16_PairsAreIndependent ==
  [][ /\ \A pdfId \in PdfIds, userId \in UserIds :
           RowsOf(table', pdfId, userId) # RowsOf(table, pdfId, userId)
             => \E r \in AllRuns :
                  /\ req[r].pdfId = pdfId /\ req[r].userId = userId
                  /\ pc[r] \in {"save", "save_fallback", "delete"} /\ pc'[r] = "done"
      /\ \A r \in AllRuns :
           (pc[r] \in {"lookup", "get"} /\ pc'[r] # pc[r])
             => LET mine == RowsOfPair(table, r)
                    found == pc'[r] = "done" /\ resp'[r][1].success
                IN /\ found => Len(mine) = 1 /\ resp'[r][1].data.id = mine[1].id
                   /\ (~found /\ lastIO'.what # "store read failed") => Len(mine) # 1
      /\ \A r \in AllRuns :
           (pc[r] \in {"save", "save_fallback"} /\ pc'[r] = "done" /\ resp'[r][1].success)
             => /\ RowsOfPair(table', r) = Append(RowsOfPair(table, r), local'[r].saved[1])
                /\ resp'[r][1].data.id = local'[r].saved[1].id ]_vars

\* A segment run has inserted the row of its pair while a row of another pair
\* was stored, and that row is still there.
C16_Witness ==
  \E r \in AllRuns :
    /\ Segmenting(r) /\ hist[r].rowsAdded = 1
    /\ \E i \in 1..Len(table) :
         /\ table[i].user_id # req[r].userId
         /\ table[i].id < local[r].saved[1].id

\* The order of the stages of a handler.
StageRank(position) ==
  CASE position = "idle" -> 0
    [] position \in {"lookup", "get", "delete"} -> 1
    [] position = "download" -> 2
    [] position = "extract" -> 3
    [] position = "generate" -> 4
    [] position \in {"save", "save_fallback"} -> 5
    [] position = "done" -> 6
    [] position = "closed" -> 7

\* C17: a handler never goes back to an earlier stage, and in every segment
\* run the cache lookup, the download, the extraction, the generation call
\* and the insert are each made at most once, whether they fail or not.
C17_NoStageIsRetried ==
  [][ \A r \in AllRuns :
        /\ pc'[r] # pc[r] => StageRank(pc'[r]) > StageRank(pc[r])
        /\ hist'[r].lookups <= 1 /\ hist'[r].downloads <= 1
        /\ hist'[r].extractions <= 1 /\ hist'[r].generations <= 1
        /\ hist'[r].inserts <= 1 ]_vars

\* A run whose generation call failed and whose insert failed after it has
\* ended, having made each of the two calls once.
C17_Witness ==
  \E r \in AllRuns :
    /\ Segmenting(r) /\ pc[r] = "done"
    /\ hist[r].generation = "failed" /\ hist[r].generations = 1
    /\ hist[r].insert = "failed" /\ hist[r].inserts = 1

\* C18: the method of a stored and returned Segmentation tells where its body
\* came from: it is fallback exactly when the body is the fallback's, whatever
\* fields the generation reply has, and the response of the run that stored
\* the row reports the method a later cache hit on that row reports.
C18_MethodTellsThePath ==
  \A r \in AllRuns :
    (Segmenting(r) /\ Answered(r) /\ Answer(r).success /\ hist[r].rowsAdded = 1)
      => LET saved == local[r].saved[1] IN
         /\ saved.segmentation_method = "fallback" <=> hist[r].bodyFrom = "fallback"
         /\ "method" \in DOMAIN Answer(r).data
         /\ Answer(r).data.method = "fallback" <=> hist[r].bodyFrom = "fallback"
         /\ Answer(r).data.method = CachedResponse(saved).data.method

\* The fields of the data object of a success response of segment.
EnvelopeDataFields ==
  {"id", "title", "overview", "segments", "totalSegments", "estimatedTime",
   "method", "createdAt"}

\* C19: every success response of a segment request, on every path, has
\* success = true, a boolean cached and a data object with id, title,
\* overview, segments, totalSegments, estimatedTime, method and createdAt.
C19_SuccessEnvelopeHasAllFields ==
  \A r \in AllRuns :
    (Segmenting(r) /\ Answered(r) /\ Answer(r).success)
      => /\ "cached" \in DOMAIN Answer(r) /\ Answer(r).cached \in BOOLEAN
         /\ "data" \in DOMAIN Answer(r)
         /\ EnvelopeDataFields \subseteq DOMAIN Answer(r).data

\* What is fixed in the body of the fallback: four segments with the given
\* titles, ids 1..4, the four difficulties, totalSegments = 4, the mark.
FixedFallback(body, titles) ==
  /\ Len(body.segments) = 4
  /\ \A k \in 1..4 :
       /\ body.segments[k].id = k
       /\ body.segments[k].title = titles[k]
       /\ body.segments[k].difficulty
            = <<"beginner", "intermediate", "advanced", "intermediate">>[k]
  /\ WellFormed(body)
  /\ body.totalSegments = 4
  /\ Truthy(body, "isUsingFallback")

\* C20 (as stated): for every label the fallback has four segments titled
\* Introduction, Core Concepts, Advanced Topics, Summary & Review.
C20_FallbackIsFixedAsStated ==
  LET titles == <<"Introduction", "Core Concepts", "Advanced Topics", "Summary & Review">> IN
  /\ \A label \in Labels : FixedFallback(fallbackSegmentation(label), titles)
  /\ \A r \in AllRuns :
       hist[r].bodyFrom = "fallback" => FixedFallback(local[r].segmentData[1], titles)

\* C20 (amended): for every label the fallback is the same body but for its
\* title: four segments titled Introduction & Overview, Core Concepts, Advanced
\* Topics, Summary & Review, ids 1..4, difficulties beginner, intermediate,
\* advanced, intermediate, totalSegments = 4, isUsingFallback = true; the body
\* of every run that falls back is that body.
C20_FallbackIsFixed ==
  LET titles == <<"Introduction & Overview", "Core Concepts", "Advanced Topics",
                  "Summary & Review">> IN
  /\ \A label \in Labels :
       /\ FixedFallback(fallbackSegmentation(label), titles)
       /\ \A other \in Labels :
            [fallbackSegmentation(label) EXCEPT !.title = << >>]
              = [fallbackSegmentation(other) EXCEPT !.title = << >>]
  /\ \A r \in AllRuns :
       hist[r].bodyFrom = "fallback"
         => /\ FixedFallback(local[r].segmentData[1], titles)
            /\ local[r].segmentData[1].title = StripPdf(req[r].pdfId)

\* A run has fallen back after a failed extraction and has stored and
\* answered the fallback body.
C20_Witness ==
  \E r \in AllRuns :
    /\ Segmenting(r) /\ pc[r] = "done" /\ hist[r].extraction = "failed"
    /\ hist[r].bodyFrom = "fallback" /\ hist[r].rowsAdded = 1

\* The fields of the JSON object the prompt asks for, and a reply object of
\* that format: those fields and no others, well-formed segments, and a
\* totalSegments that is their number.
FormatFields == {"title", "overview", "segments", "totalSegments", "estimatedTotalTime"}
OfRequiredFormat(body) ==
  /\ DOMAIN body = FormatFields
  /\ WellFormed(body)
  /\ body.totalSegments = Len(body.segments)

\* C21: when the extraction succeeds, the generation reply is valid JSON of
\* the required format with five well-formed segments, and the insert
\* succeeds, the run stores exactly that body and answers success = true,
\* cached = false, the method of a generated body ('groq-free' in the
\* response, 'groq' in the row) and totalSegments = 5, with the five segments
\* in the order of the reply.
C21_FiveSegmentReplyIsStoredAndReturned ==
  \A r \in AllRuns :
    ( /\ Segmenting(r) /\ hist[r].extraction = "ok"
      /\ hist[r].bodyFrom = "generated" /\ hist[r].insert = "ok"
      /\ OfRequiredFormat(local[r].segmentData[1])
      /\ Len(local[r].segmentData[1].segments) = 5 )
      => LET body == local[r].segmentData[1]
             saved == local[r].saved[1]
         IN /\ body \in Payloads
            /\ Answered(r)
            /\ Answer(r).success /\ Answer(r).status = 200
            /\ "cached" \in DOMAIN Answer(r) /\ ~Answer(r).cached
            /\ Answer(r).data.method = "groq-free"
            /\ Answer(r).data.totalSegments = 5
            /\ Answer(r).data.segments = body.segments
            /\ Answer(r).data.title = body.title
            /\ Answer(r).data.overview = body.overview
            /\ Answer(r).data.estimatedTime = body.estimatedTotalTime
            /\ Answer(r).data.id = saved.id
            /\ hist[r].rowsAdded = 1
            /\ saved.pdf_id = req[r].pdfId /\ saved.user_id = req[r].userId
            /\ saved.title = body.title /\ saved.overview = body.overview
            /\ JSONparse(saved.segments_json) = body.segments
            /\ saved.total_segments = 5
            /\ saved.estimated_total_time = body.estimatedTotalTime
            /\ saved.segmentation_method = "groq"

\* A run has stored and answered a generated body of five segments.
C21_Witness ==
  \E r \in AllRuns :
    /\ Segmenting(r) /\ pc[r] = "done" /\ hist[r].extraction = "ok"
    /\ hist[r].bodyFrom = "generated" /\ hist[r].rowsAdded = 1
    /\ local[r].segmentData = <<WithSegs(FiveSegs, 5)>>
    /\ Answer(r).success

\* The texts extractPDFText returns for the documents of the model.
ExtractedTexts ==
  {extractPDFText(doc).text : doc \in {d \in Docs : extractPDFText(d).ok}}

\* C22: the text put into the prompt is the extracted text itself when that
\* has at most 15,000 characters (15,000 included), and otherwise its first
\* 15,000 characters followed by the truncation marker and nothing else.
C22_PromptTextIsCutAtTheLimit ==
  lastIO.what = "document"
    => /\ lastIO.prompt.whole <=> lastIO.prompt.chars # "above the limit"
       /\ \A text \in ExtractedTexts :
            LET prompt == truncatedText(text) IN
            /\ Length(text) <= MaxChars => prompt = text
            /\ Length(text) > MaxChars
                 => /\ Length(prompt) = MaxChars + Length(TruncationMarker)
                    /\ Length(Substring0(prompt, MaxChars)) = MaxChars
                    /\ Substring0(prompt, MaxChars) = Substring0(text, MaxChars)
                    /\ prompt = Substring0(prompt, MaxChars) \o TruncationMarker

\* A prompt has been sent with a text that was cut, the extracted text having
\* more than 15,000 characters; among the texts there is one of exactly
\* 15,000 characters and one that is cut inside the text of a page.
C22_Witness ==
  /\ lastIO.what = "document"
  /\ lastIO.prompt.chars = "above the limit" /\ ~lastIO.prompt.whole
  /\ \E text \in ExtractedTexts : Length(text) = MaxChars
  /\ \E text \in ExtractedTexts :
       LET prompt == truncatedText(text) IN
       /\ Len(prompt) = 5
       /\ prompt[4].s = "page text" /\ prompt[4].n < text[4].n

\* The replies that are one JSON object p between code-fence markers: the
\* opening marker with or without the json tag, each marker with or without a
\* line break after it, a line break before the closing marker or none.
Wrapped(p) ==
  {open \o <<Obj(p)>> \o close :
     open \in {<<FenceJson>>, <<FenceJson, NL>>, <<Fence>>, <<Fence, NL>>},
     close \in {<<Fence>>, <<NL, Fence>>, <<Fence, NL>>, <<NL, Fence, NL>>}}

\* C24: a generation reply that is a JSON object with a segments field
\* between code-fence markers, with or without the json tag, is accepted like
\* the object without the markers: the markers are removed before parsing,
\* the run takes the object as its body and not the fallback, and a body of
\* the required format is stored and answered with the method of a generated
\* body.
C24_FencedReplyIsAccepted ==
  \A r \in AllRuns :
    (lastIO.run = r /\ lastIO.what = "segments" /\ lastIO.fenced)
      => /\ hist[r].generation = "ok" /\ hist[r].bodyFrom = "generated"
         /\ pc[r] = "save"
         /\ local[r].segmentData # <<fallbackSegmentation(req[r].pdfId)>>
         /\ LET body == local[r].segmentData[1]
                saved == NewRow(nextId, req[r].pdfId, req[r].userId, body)
            IN /\ body \in Payloads
               /\ \A content \in Wrapped(body) :
                    /\ segmentWithGroq([kind |-> "text", content |-> content])
                         = segmentWithGroq([kind |-> "text", content |-> <<Obj(body)>>])
                    /\ segmentWithGroq([kind |-> "text", content |-> content])
                         = [ok |-> TRUE, data |-> body]
               /\ OfRequiredFormat(body)
                    => /\ saved.segmentation_method = "groq"
                       /\ SegmentedResponse(body, saved).data.method = "groq-free"

\* A run has got a body of five segments from a reply with code-fence markers
\* and stands before the insert.
C24_Witness ==
  \E r \in AllRuns :
    /\ lastIO.run = r /\ lastIO.what = "segments" /\ lastIO.fenced
    /\ pc[r] = "save"
    /\ local[r].segmentData = <<WithSegs(FiveSegs, 5)>>

\* The text the specification asks of the extraction for the pages 1..i: the
\* marker of every page in document order, followed by the text of the page,
\* which is empty for a page that cannot be decoded.
RECURSIVE TolerantText(_, _)
TolerantText(pages, i) ==
  IF i = 0 THEN << >>
  ELSE TolerantText(pages, i - 1)
         \o <<PageMarker(i)>>
         \o (IF pages[i] = "bad" THEN << >> ELSE <<PageText(pages[i], i)>>)

\* C23: the extraction of a document pdfjs can open does not fail because of
\* a page: it returns pageCount = n and the text of all n pages, each after
\* its 1-based marker in document order, with nothing after the marker of a
\* page that cannot be decoded; the run goes on to the generation.
C23_UndecodablePageIsTolerated ==
  \A r \in AllRuns :
    (lastIO.run = r /\ lastIO.what = "page undecodable")
      => /\ hist[r].extraction = "ok" /\ pc[r] = "generate"
         /\ \A doc \in Docs :
              doc.parseable
                => /\ extractPDFText(doc).ok
                   /\ extractPDFText(doc).pageCount = Len(doc.pages)
                   /\ extractPDFText(doc).text = TolerantText(doc.pages, Len(doc.pages))

\* C27: whenever the store holds one or more rows for a pair and answers the
\* read, a getSegments for the pair answers a Segmentation, and the cache
\* lookup of a segment run for the pair reports it: the run answers
\* cached = true and goes on to no download and no insert.
C27_LookupNeverMissesAStoredPair ==
  [][ \A r \in AllRuns :
        ( /\ pc[r] \in {"lookup", "get"} /\ pc'[r] # pc[r]
          /\ RowsOfPair(table, r) # << >>
          /\ lastIO'.what # "store read failed" )
          => /\ pc'[r] = "done"
             /\ resp'[r][1].success
             /\ resp'[r][1].data.id \in RowIds(RowsOfPair(table, r))
             /\ pc[r] = "lookup" => resp'[r][1].cached
             /\ table' = table ]_vars

\* C28: a failed store read is not surfaced.  getExistingSegments returns
\* null for it whatever rows there are; the segment run whose lookup failed
\* stands where a run stands after a miss, before the download, with nothing
\* answered and nothing else done;
\* the getSegments whose read failed has answered not-found.
C28_ReadFailureIsAMiss ==
  \A r \in AllRuns :
    (lastIO.run = r /\ lastIO.what = "store read failed")
      => /\ \A pdfId \in PdfIds, userId \in UserIds :
              getExistingSegments(table, pdfId, userId, FALSE) = << >>
         /\ req[r].op = "segment"
              => /\ pc[r] = "download" /\ resp[r] = << >>
                 /\ hist[r] = [NoHist EXCEPT !.lookups = 1, !.lookup = "miss"]
                 /\ local[r] = NoLocal
         /\ req[r].op = "get"
              => /\ Answered(r)
                 /\ Answer(r) = NotFound
                 /\ Answer(r).status = 404
         /\ req[r].op \in {"segment", "get"}

\* The cache lookup of a segment run has failed while a row of its pair was
\* stored, and the run stands before the download.
C28_Witness ==
  \E r \in AllRuns :
    /\ lastIO.run = r /\ lastIO.what = "store read failed"
    /\ req[r].op = "segment" /\ pc[r] = "download"
    /\ Len(RowsOfPair(table, r)) = 1

\* C30: getSegments and deleteSegments act under the user id of the request
\* only.  Without one they answer 401 at once and the table stays as it is;
\* with one, what getSegments returns is a stored row of that user and of the
\* requested document, and it changes nothing; and every row of another user
\* is still there, unchanged, after the delete.
C30_OwnerIsolation ==
  [][ \A r \in AllRuns :
        /\ (pc[r] = "idle" /\ req'[r].op \in {"get", "delete"} /\ Falsy(req'[r].userId))
             => /\ pc'[r] = "done"
                /\ resp'[r] = <<Unauthorized>>
                /\ resp'[r][1].status = 401 /\ ~resp'[r][1].success
                /\ table' = table
        /\ (pc[r] = "idle" /\ req'[r].op \in {"get", "delete"} /\ ~Falsy(req'[r].userId))
             => pc'[r] \in {"get", "delete"} /\ resp'[r] = << >> /\ table' = table
        /\ (pc[r] = "get" /\ pc'[r] = "done")
             => /\ table' = table
                /\ req[r].userId \in UserIds
                /\ resp'[r][1].success
                     => \E i \in 1..Len(table) :
                          /\ table[i].user_id = req[r].userId
                          /\ table[i].pdf_id = req[r].pdfId
                          /\ resp'[r][1] = FoundResponse(table[i])
        /\ (pc[r] = "delete" /\ pc'[r] = "done")
             => /\ req[r].userId \in UserIds
                /\ SelectSeq(table', LAMBDA row : row.user_id # req[r].userId)
                     = SelectSeq(table, LAMBDA row : row.user_id # req[r].userId) ]_vars

\* Two rows were stored, and the deleteSegments that arrived when all other
\* requests had been answered has answered success: the one row left is the
\* row of another user.
C30_Witness ==
  /\ req[LateRun].op = "delete" /\ Answered(LateRun) /\ Answer(LateRun) = Deleted
  /\ nextId = 3 /\ Len(table) = 1
  /\ table[1].user_id # req[LateRun].userId
  /\ table[1].pdf_id = req[LateRun].pdfId

\* The handler of request r has started and has not ended.
Running(r) ==
  pc[r] \in {"lookup", "download", "extract", "generate", "save", "save_fallback",
             "get", "delete"}

\* C29: every segment request ends with exactly one response.  While its
\* handler runs nothing has been sent; when it has ended, one response has
\* been sent and none is sent after it; and, every awaited call returning or
\* failing in the end, every handler that has started ends: again and again
\* no handler is running, and a handler that has ended does not run again.
C29_OneResponseAndTermination ==
  /\ [](\A r \in AllRuns :
          /\ Len(resp[r]) <= 1
          /\ Segmenting(r)
               => /\ Running(r) \/ pc[r] = "done"
                  /\ Running(r) <=> Len(resp[r]) = 0
                  /\ pc[r] = "done" <=> Len(resp[r]) = 1)
  /\ [][\A r \in AllRuns : (pc[r] = "done" /\ Segmenting(r)) => ~Running(r)']_vars
  /\ []<>(\A r \in AllRuns : ~Running(r))

\* A run whose extraction failed and whose insert of the fallback failed has
\* ended with one response, the failed one.
C29_Witness ==
  \E r \in AllRuns :
    /\ Segmenting(r) /\ pc[r] = "done"
    /\ hist[r].extraction = "failed" /\ hist[r].generations = 0
    /\ hist[r].insert = "failed"
    /\ resp[r] = <<SegmentationFailed>>

\* C25: a request to GET /api/auth/profile or POST /api/auth/logout reaches
\* its handler only with a token that verifies against the JWT secret and has
\* not expired; with no token, with a token that does not verify, and with an
\* expired token the response is 401 with success = false, and the handler
\* has not run.
C25_ProtectedEndpointsNeedAValidToken ==
  \A r \in RunIds :
    Protected(r)
      => LET token == req[r].token
             verifies == token.kind = "jwt" /\ token.secret = "JWT_SECRET"
         IN /\ local[r].handler # "none"
                 => /\ verifies /\ ~req[r].expired
                    /\ local[r].handler = req[r].op
                    /\ local[r].user = <<[id |-> token.userId, token |-> token]>>
            /\ (pc[r] = "signOut" \/ (Answered(r) /\ Answer(r).status = 200))
                 => local[r].handler # "none"
            /\ (token = NoToken \/ ~verifies \/ req[r].expired)
                 => /\ Answered(r)
                    /\ Answer(r).status = 401 /\ ~Answer(r).success
                    /\ local[r].handler = "none"
                    /\ Answer(r) = IF token = NoToken THEN NoTokenProvided
                                   ELSE IF ~verifies THEN InvalidToken
                                   ELSE TokenExpired

\* A request to the logout route with an expired token has been answered 401
\* 'Token expired', after a request with the same token, then still good, had
\* been answered by the handler of the profile route.
C25_Witness ==
  \E q, r \in RunIds :
    /\ Protected(q) /\ Protected(r) /\ q \in req[r].answered
    /\ req[q].token = req[r].token
    /\ req[q].op = "profile" /\ Answered(q) /\ Answer(q).success
    /\ req[r].op = "logout" /\ req[r].expired
    /\ Answered(r) /\ Answer(r) = TokenExpired

\* C26: after POST /api/auth/logout has answered success for a token, every
\* later request that presents the same token to a protected endpoint is
\* answered 401.
C26_LogoutInvalidatesTheToken ==
  \A q, r \in RunIds :
    ( /\ Protected(q) /\ Protected(r)
      /\ req[q].op = "logout" /\ Answered(q) /\ Answer(q) = LogoutSuccessful
      /\ q \in req[r].answered
      /\ req[r].token = req[q].token
      /\ Answered(r) )
      => Answer(r).status = 401

====
